---- MODULE Spec2Model ----
(***************************************************************************)
(* Tic-tac-toe: the class-based engine (TicTacToe) and its display         *)
(* (DOMDisplay).  Two variants of TicTacToe.clickCell exist in the         *)
(* repository: the TypeScript one ("ts", part_002) evaluates the outcome   *)
(* only inside the accepted-mark branch, the JavaScript one ("js",         *)
(* tictactoe.js and its compiled twin part_000) evaluates it after the     *)
(* branch.  Everything else is identical in both.                          *)
(***************************************************************************)
EXTENDS Integers, Sequences, FiniteSets, TLC

\* ---------------------------------------------------------------- bounds
\* Highest score a player may reach in the model (score is unbounded in the code).
MaxScore == 1
\* Most timers the procedural variant may have pending at once (it arms two per
\* round end and nothing in the code limits how many round ends overlap).
MaxTimers == 4

\* ---------------------------------------------------------------- constants
\* Board indices 0..2 (createBoard builds three rows of three cells).
Idx == 0..2
\* The empty string that marks a free cell.
Empty == ""
\* players = { x: 'x', o: 'o' }
players == [x |-> "x", o |-> "o"]
Tokens == {players.x, players.o}
\* gameOver() called with no argument: winner is undefined (falsy).
Undefined == "undefined"
Variants == {"ts", "js"}
\* Coordinates a direct caller of clickCell may pass: the indices and one value
\* off each end.
Coord == -1..3
\* last.cell when board[row] itself is undefined: there is no cell to read.
NoRow == "no row"

VARIABLES
  variant,        \* which clickCell is installed: "ts" or "js"
  board,          \* this.board
  currentPlayer,  \* this.currentPlayer
  score,          \* this.score
  waiting,        \* this.waiting
  timers,         \* number of pending setTimeout callbacks
  dispCells,      \* per cell, the sequence of token spans appended to it
  dispScore,      \* the number shown in #score-x / #score-o
  messages,       \* the .message elements under #game, in document order
  effects,        \* what the last handler run did, in order
  last,           \* the last event: [op, cell], cell being what the board held
                  \* in the clicked cell when the click arrived
  marker,         \* the player who placed the most recent accepted mark
  roundsWon,      \* how many rounds of the session ended with a completed line
  timerQ          \* procedural variant: its pending setTimeout callbacks, oldest first

vars == <<variant, board, currentPlayer, score, waiting, timers,
          dispCells, dispScore, messages, effects, last, marker, roundsWon, timerQ>>

\* ---------------------------------------------------------------- pure functions
createBoard == [r \in Idx |-> [c \in Idx |-> Empty]]

\* isGameWon with the anti-diagonal test forgotten.
isGameWonNoAntiDiag(b, cp, row, col) ==
  \/ (b[row][0] = cp /\ b[row][1] = cp /\ b[row][2] = cp)
  \/ (b[0][col] = cp /\ b[1][col] = cp /\ b[2][col] = cp)
  \/ (b[0][0] = cp /\ b[1][1] = cp /\ b[2][2] = cp)

isGameWon(b, cp, row, col) ==
  \/ (b[row][0] = cp /\ b[row][1] = cp /\ b[row][2] = cp)
  \/ (b[0][col] = cp /\ b[1][col] = cp /\ b[2][col] = cp)
  \/ (b[0][0] = cp /\ b[1][1] = cp /\ b[2][2] = cp)
  \/ (b[2][0] = cp /\ b[1][1] = cp /\ b[0][2] = cp)

\* stalemate keeping only the rows that are empty throughout.
stalemateEmptyRows(b) == {r \in Idx : \A c \in Idx : b[r][c] = Empty}

\* board.map(row => row.filter(col => col === '')).filter(row => row.length > 0):
\* the rows that still have an empty cell.
stalemate(b) == {r \in Idx : \E c \in Idx : b[r][c] = Empty}

\* printMessage with the two player names swapped.
messageTextSwapped(winner) ==
  LET player == IF winner = "x" THEN "Player 2" ELSE "Player 1"
  IN IF winner # Undefined THEN player \o " wins!" ELSE "Nobody wins!"

\* DOMDisplay.printMessage: the text of the appended message element.
messageText(winner) ==
  LET player == IF winner = "x" THEN "Player 1" ELSE "Player 2"
  IN IF winner # Undefined THEN player \o " wins!" ELSE "Nobody wins!"

\* DOMDisplay.updateBoard: append a token span to the cell.
updateBoard(cells, row, col, cp) ==
  [cells EXCEPT ![row][col] = Append(@, cp)]

\* DOMDisplay.clearGameBoard: textContent = '' for every cell.
clearGameBoard == [r \in Idx |-> [c \in Idx |-> <<>>]]

\* ---------------------------------------------------------------- reference notions
\* The eight lines of the board: three rows, three columns, two diagonals.
Lines ==
  {{<<r, c>> : c \in Idx} : r \in Idx} \cup
  {{<<r, c>> : r \in Idx} : c \in Idx} \cup
  {{<<i, i>> : i \in Idx}, {<<i, 2 - i>> : i \in Idx}}

\* Some line of b consists entirely of p's mark.
LineComplete(b, p) == \E L \in Lines : \A rc \in L : b[rc[1]][rc[2]] = p

\* No cell of b is empty.
Full(b) == \A r \in Idx, c \in Idx : b[r][c] # Empty

\* ---------------------------------------------------------------- initial state
\* Constructor that hands the first turn to o.
InitOStarts ==
  /\ variant \in Variants
  /\ board = createBoard
  /\ currentPlayer = players.o
  /\ score = [x |-> 0, o |-> 0]
  /\ waiting = FALSE
  /\ timers = 0
  /\ dispCells = clearGameBoard
  /\ dispScore = [x |-> 0, o |-> 0]
  /\ messages = <<>>
  /\ effects = <<>>
  /\ last = [op |-> "start", cell |-> Empty]
  /\ marker = Undefined
  /\ roundsWon = 0
  /\ timerQ = <<>>

\* The state after new TicTacToe(display) and startGame().
Init ==
  /\ variant \in Variants
  /\ board = createBoard
  /\ currentPlayer = players.x
  /\ score = [x |-> 0, o |-> 0]
  /\ waiting = FALSE
  /\ timers = 0
  /\ dispCells = clearGameBoard
  /\ dispScore = [x |-> 0, o |-> 0]
  /\ messages = <<>>
  /\ effects = <<>>
  /\ last = [op |-> "start", cell |-> Empty]
  /\ marker = Undefined
  /\ roundsWon = 0
  /\ timerQ = <<>>

\* ---------------------------------------------------------------- engine steps
\* gameOver(winner) that always names the current player in the message.
gameOverNamesCurrent(winner) ==
  /\ waiting' = TRUE
  /\ messages' = Append(messages, messageText(currentPlayer))
  /\ timers' = timers + 1

\* gameOver(winner): waiting = true, printMessage, setTimeout.
gameOver(winner) ==
  /\ waiting' = TRUE
  /\ messages' = Append(messages, messageText(winner))
  /\ timers' = timers + 1

\* increaseScore crediting the opponent.
increaseScoreOther ==
  score' = [score EXCEPT ![IF currentPlayer = players.x THEN players.o ELSE players.x] = @ + 1]

\* increaseScore: this.score[this.currentPlayer] += 1
increaseScore ==
  score' = [score EXCEPT ![currentPlayer] = @ + 1]

\* updateScore showing the score as it was before increaseScore.
updateScoreStale ==
  dispScore' = [dispScore EXCEPT ![currentPlayer] = score[currentPlayer]]

\* DOMDisplay.updateScore(this.score, this.currentPlayer), called after increaseScore.
updateScore ==
  dispScore' = [dispScore EXCEPT ![currentPlayer] = score'[currentPlayer]]

\* switchPlayer that leaves the turn where it is.
switchPlayerStays ==
  currentPlayer' = IF currentPlayer = players.x THEN players.x ELSE players.o

\* switchPlayer
switchPlayer ==
  currentPlayer' = IF currentPlayer = players.x THEN players.o ELSE players.x

\* Outcome evaluation that also passes the turn on when the round ends.
evaluateSwitching(b, row, col, pre) ==
  LET win == isGameWon(b, currentPlayer, row, col) IN
  IF ~waiting
    THEN IF win
      THEN /\ increaseScore
           /\ updateScore
           /\ gameOver(currentPlayer)
           /\ switchPlayer
           /\ effects' = pre \o <<"increaseScore", "updateScore", "waiting",
                                  "printMessage", "setTimeout">>
      ELSE IF Cardinality(stalemate(b)) < 1
        THEN /\ gameOver(Undefined)
             /\ switchPlayer
             /\ UNCHANGED <<score, dispScore>>
             /\ effects' = pre \o <<"waiting", "printMessage", "setTimeout">>
        ELSE /\ switchPlayer
             /\ UNCHANGED <<score, dispScore, waiting, messages, timers>>
             /\ effects' = pre \o <<"switchPlayer">>
    ELSE /\ UNCHANGED <<score, dispScore, waiting, messages, timers, currentPlayer>>
         /\ effects' = pre

\* Outcome evaluation that tests for a full board before testing for a win.
evaluateDrawFirst(b, row, col, pre) ==
  LET win == isGameWon(b, currentPlayer, row, col) IN
  IF ~waiting
    THEN IF Cardinality(stalemate(b)) < 1
      THEN /\ gameOver(Undefined)
           /\ UNCHANGED <<score, dispScore, currentPlayer>>
           /\ effects' = pre \o <<"waiting", "printMessage", "setTimeout">>
      ELSE IF win
        THEN /\ increaseScore
             /\ updateScore
             /\ gameOver(currentPlayer)
             /\ UNCHANGED currentPlayer
             /\ effects' = pre \o <<"increaseScore", "updateScore", "waiting",
                                    "printMessage", "setTimeout">>
        ELSE /\ switchPlayer
             /\ UNCHANGED <<score, dispScore, waiting, messages, timers>>
             /\ effects' = pre \o <<"switchPlayer">>
    ELSE /\ UNCHANGED <<score, dispScore, waiting, messages, timers, currentPlayer>>
         /\ effects' = pre

\* Outcome evaluation without the if (!this.waiting) test around it.
evaluateNoWaitCheck(b, row, col, pre) ==
  LET win == isGameWon(b, currentPlayer, row, col) IN
  IF win
    THEN /\ increaseScore
         /\ updateScore
         /\ gameOver(currentPlayer)
         /\ UNCHANGED currentPlayer
         /\ effects' = pre \o <<"increaseScore", "updateScore", "waiting",
                                "printMessage", "setTimeout">>
    ELSE IF Cardinality(stalemate(b)) < 1
      THEN /\ gameOver(Undefined)
           /\ UNCHANGED <<score, dispScore, currentPlayer>>
           /\ effects' = pre \o <<"waiting", "printMessage", "setTimeout">>
      ELSE /\ switchPlayer
           /\ UNCHANGED <<score, dispScore, waiting, messages, timers>>
           /\ effects' = pre \o <<"switchPlayer">>

\* Outcome evaluation that calls gameOver before crediting the win.
evaluateGameOverFirst(b, row, col, pre) ==
  LET win == isGameWon(b, currentPlayer, row, col) IN
  IF ~waiting
    THEN IF win
      THEN /\ gameOver(currentPlayer)
           /\ increaseScore
           /\ updateScore
           /\ UNCHANGED currentPlayer
           /\ effects' = pre \o <<"waiting", "printMessage", "setTimeout",
                                  "increaseScore", "updateScore">>
      ELSE IF Cardinality(stalemate(b)) < 1
        THEN /\ gameOver(Undefined)
             /\ UNCHANGED <<score, dispScore, currentPlayer>>
             /\ effects' = pre \o <<"waiting", "printMessage", "setTimeout">>
        ELSE /\ switchPlayer
             /\ UNCHANGED <<score, dispScore, waiting, messages, timers>>
             /\ effects' = pre \o <<"switchPlayer">>
    ELSE /\ UNCHANGED <<score, dispScore, waiting, messages, timers, currentPlayer>>
         /\ effects' = pre

\* The outcome evaluation of clickCell:
\*   if (!this.waiting) { if (win) ... else if (stalemate.length < 1) ... else switchPlayer }
\* b is the board as it stands when win and stalemate are computed; pre is what
\* the handler did before reaching this point.
evaluate(b, row, col, pre) ==
  LET win == isGameWon(b, currentPlayer, row, col) IN
  IF ~waiting
    THEN IF win
      THEN /\ increaseScore
           /\ updateScore
           /\ gameOver(currentPlayer)
           /\ UNCHANGED currentPlayer
           /\ effects' = pre \o <<"increaseScore", "updateScore", "waiting",
                                  "printMessage", "setTimeout">>
      ELSE IF Cardinality(stalemate(b)) < 1
        THEN /\ gameOver(Undefined)
             /\ UNCHANGED <<score, dispScore, currentPlayer>>
             /\ effects' = pre \o <<"waiting", "printMessage", "setTimeout">>
        ELSE /\ switchPlayer
             /\ UNCHANGED <<score, dispScore, waiting, messages, timers>>
             /\ effects' = pre \o <<"switchPlayer">>
    ELSE /\ UNCHANGED <<score, dispScore, waiting, messages, timers, currentPlayer>>
         /\ effects' = pre

\* The mark of an accepted click: the board write and display.updateBoard.
mark(row, col) ==
  /\ board' = [board EXCEPT ![row][col] = currentPlayer]
  /\ dispCells' = updateBoard(dispCells, row, col, currentPlayer)
  /\ marker' = currentPlayer

\* clickCell that does not test whether the cell is free.
clickCellTSNoCanContinue(row, col) ==
  IF ~waiting
    THEN /\ mark(row, col)
         /\ evaluate(board', row, col, <<"mark", "updateBoard">>)
    ELSE /\ UNCHANGED <<board, dispCells, marker, score, dispScore, waiting,
                        messages, timers, currentPlayer>>
         /\ effects' = <<>>

\* clickCell that does not test this.waiting before marking.
clickCellTSNoWaiting(row, col) ==
  LET canContinue == board[row][col] = Empty IN
  IF canContinue
    THEN /\ mark(row, col)
         /\ evaluate(board', row, col, <<"mark", "updateBoard">>)
    ELSE /\ UNCHANGED <<board, dispCells, marker, score, dispScore, waiting,
                        messages, timers, currentPlayer>>
         /\ effects' = <<>>

\* clickCell that evaluates the outcome after the accepted branch, for every click.
clickCellTSEvaluatesAlways(row, col) ==
  LET canContinue == board[row][col] = Empty IN
  IF canContinue /\ ~waiting
    THEN /\ mark(row, col)
         /\ evaluate(board', row, col, <<"mark", "updateBoard">>)
    ELSE /\ UNCHANGED <<board, dispCells, marker>>
         /\ evaluate(board, row, col, <<>>)

\* TicTacToe.clickCell, TypeScript variant: the outcome is evaluated inside the
\* accepted branch only.
clickCellTS(row, col) ==
  LET canContinue == board[row][col] = Empty IN
  IF canContinue /\ ~waiting
    THEN /\ mark(row, col)
         /\ evaluate(board', row, col, <<"mark", "updateBoard">>)
    ELSE /\ UNCHANGED <<board, dispCells, marker, score, dispScore, waiting,
                        messages, timers, currentPlayer>>
         /\ effects' = <<>>

\* TicTacToe.clickCell, JavaScript variant: the outcome is evaluated after the
\* accepted branch, whether or not the click was accepted.
clickCellJS(row, col) ==
  LET canContinue == board[row][col] = Empty IN
  IF canContinue /\ ~waiting
    THEN /\ mark(row, col)
         /\ evaluate(board', row, col, <<"mark", "updateBoard">>)
    ELSE /\ UNCHANGED <<board, dispCells, marker>>
         /\ evaluate(board, row, col, <<>>)

\* A click on cell (row, col) delivered by DOMDisplay.bindHandler.
ClickCell(row, col) ==
  /\ IF variant = "ts" THEN clickCellTS(row, col) ELSE clickCellJS(row, col)
  /\ last' = [op |-> "click", cell |-> board[row][col]]
  /\ roundsWon' = IF ~waiting /\ waiting' /\ LineComplete(board', currentPlayer)
                    THEN roundsWon + 1 ELSE roundsWon
  /\ score'[players.x] <= MaxScore
  /\ score'[players.o] <= MaxScore
  /\ UNCHANGED <<variant, timerQ>>

\* resetBoard that clears the display but keeps the old board array.
resetBoardKeepsBoard ==
  /\ messages' = Tail(messages)
  /\ dispCells' = clearGameBoard
  /\ board' = board

\* resetBoard that forgets display.clearGameBoard().
resetBoardKeepsDisplay ==
  /\ messages' = Tail(messages)
  /\ dispCells' = dispCells
  /\ board' = createBoard

\* resetBoard that forgets display.clearMessage().
resetBoardKeepsMessage ==
  /\ messages' = messages
  /\ dispCells' = clearGameBoard
  /\ board' = createBoard

\* TicTacToe.resetBoard: clearMessage, clearGameBoard, fresh board.
\* clearMessage removes the first .message element.
resetBoard ==
  /\ messages' = Tail(messages)
  /\ dispCells' = clearGameBoard
  /\ board' = createBoard

\* Timeout callback that also hands the turn back to x.
timeoutCallbackResetsTurn ==
  /\ IF messages # <<>>
       THEN /\ resetBoard
            /\ waiting' = FALSE
            /\ effects' = <<"clearMessage", "clearGameBoard", "createBoard", "active">>
       ELSE /\ UNCHANGED <<messages, dispCells, board, waiting>>
            /\ effects' = <<"throw">>
  /\ currentPlayer' = players.x
  /\ UNCHANGED <<score, dispScore, marker>>

\* Timeout callback that also starts the tally again.
timeoutCallbackResetsScore ==
  /\ IF messages # <<>>
       THEN /\ resetBoard
            /\ waiting' = FALSE
            /\ effects' = <<"clearMessage", "clearGameBoard", "createBoard", "active">>
       ELSE /\ UNCHANGED <<messages, dispCells, board, waiting>>
            /\ effects' = <<"throw">>
  /\ score' = [x |-> 0, o |-> 0]
  /\ UNCHANGED <<currentPlayer, dispScore, marker>>

\* Timeout callback that forgets this.waiting = false.
timeoutCallbackStaysWaiting ==
  /\ IF messages # <<>>
       THEN /\ resetBoard
            /\ waiting' = waiting
            /\ effects' = <<"clearMessage", "clearGameBoard", "createBoard", "active">>
       ELSE /\ UNCHANGED <<messages, dispCells, board, waiting>>
            /\ effects' = <<"throw">>
  /\ UNCHANGED <<currentPlayer, score, dispScore, marker>>

\* The callback armed by gameOver: resetBoard(), then waiting = false.  With no
\* .message element present clearMessage throws (getElement returns null) and
\* the rest of the callback does not run.
timeoutCallback ==
  /\ IF messages # <<>>
       THEN /\ resetBoard
            /\ waiting' = FALSE
            /\ effects' = <<"clearMessage", "clearGameBoard", "createBoard", "active">>
       ELSE /\ UNCHANGED <<messages, dispCells, board, waiting>>
            /\ effects' = <<"throw">>
  /\ UNCHANGED <<currentPlayer, score, dispScore, marker>>

\* A pending timer elapses and its callback runs to completion.
TimerFire ==
  /\ timers > 0
  /\ timers' = timers - 1
  /\ timeoutCallback
  /\ last' = [op |-> "timer", cell |-> Empty]
  /\ UNCHANGED <<variant, roundsWon, timerQ>>

Next ==
  \/ \E row \in Idx, col \in Idx : ClickCell(row, col)
  \/ TimerFire

\* Both variants of the engine.
Spec == Init /\ [][Next]_vars

\* The TypeScript engine alone.
InitTS == Init /\ variant = "ts"
SpecTS == InitTS /\ [][Next]_vars

\* The JavaScript engine alone.
InitJS == Init /\ variant = "js"
SpecJS == InitJS /\ [][Next]_vars

\* TicTacToe.clickCell (TypeScript) called with a row or column outside 0..2.
\* this.board[row] is undefined for such a row and reading [col] of it throws a
\* TypeError before anything is written; for a valid row and such a column
\* this.board[row][col] is undefined, canContinue is false and nothing runs.
clickCellOutOfRange(row, col) ==
  /\ UNCHANGED <<board, dispCells, marker, score, dispScore, waiting,
                 messages, timers, currentPlayer>>
  /\ effects' = IF row \notin Idx THEN <<"throw">> ELSE <<>>

\* A direct call clickCell(row, col) with coordinates that name no cell.
ClickOutOfRange(row, col) ==
  /\ variant = "ts"
  /\ row \notin Idx \/ col \notin Idx
  /\ clickCellOutOfRange(row, col)
  /\ last' = [op |-> "click", cell |-> IF row \in Idx THEN Undefined ELSE NoRow]
  /\ UNCHANGED <<variant, roundsWon, timerQ>>

NextAnyClick ==
  \/ \E row \in Idx, col \in Idx : ClickCell(row, col)
  \/ TimerFire
  \/ \E row \in Coord, col \in Coord : ClickOutOfRange(row, col)

\* The TypeScript engine with clickCell open to any caller.
SpecTSAnyClick == InitTS /\ [][NextAnyClick]_vars

\* ---------------------------------------------------------------- procedural variant
\* The module-level script of part_001: board, score and currentPlayer are
\* globals, the cells' textContent decides whether a click is taken, and there
\* is no round-phase flag.  It uses board, score, currentPlayer, dispCells (the
\* cells' textContent), dispScore (the score line), messages (the .win
\* elements) and timerQ; waiting and timers stay as they start.
tokens == [x |-> "x", o |-> "o"]

createNewBoard == [r \in Idx |-> [c \in Idx |-> Empty]]

InitProc ==
  /\ variant = "proc"
  /\ board = createNewBoard
  /\ score = [x |-> 0, o |-> 0]
  /\ currentPlayer = tokens.x
  /\ dispCells = [r \in Idx |-> [c \in Idx |-> <<>>]]
  /\ dispScore = [x |-> 0, o |-> 0]
  /\ messages = <<>>
  /\ timerQ = <<>>
  /\ waiting = FALSE
  /\ timers = 0
  /\ effects = <<>>
  /\ last = [op |-> "start", cell |-> Empty]
  /\ marker = Undefined
  /\ roundsWon = 0

\* horizontalWin || verticalWin || diagonalWin of the click listener.
procWin(b, cp, row, col) ==
  LET horizontalWin == b[row][0] = cp /\ b[row][1] = cp /\ b[row][2] = cp
      verticalWin == b[0][col] = cp /\ b[1][col] = cp /\ b[2][col] = cp
      diagonalWin == \/ (b[0][0] = cp /\ b[1][1] = cp /\ b[2][2] = cp)
                     \/ (b[2][0] = cp /\ b[1][1] = cp /\ b[0][2] = cp)
  IN horizontalWin \/ verticalWin \/ diagonalWin

\* gameOver(condition) followed by setTimeout(clearBoard): the message is
\* appended, its removal is scheduled, then clearBoard is scheduled.
procGameOver(condition) ==
  /\ messages' = Append(messages, IF condition # Undefined
                                     THEN "Nobody wins!"
                                     ELSE currentPlayer \o " wins!")
  /\ timerQ' = timerQ \o <<"removeMessage", "clearBoard">>

\* The click listener on the game board, for a click on cell (row, col).
procClickListener(row, col) ==
  IF dispCells[row][col] = <<>>
    THEN LET b == [board EXCEPT ![row][col] = currentPlayer] IN
         /\ board' = b
         /\ dispCells' = [dispCells EXCEPT ![row][col] = <<currentPlayer>>]
         /\ marker' = currentPlayer
         /\ IF procWin(b, currentPlayer, row, col)
              THEN /\ score' = [score EXCEPT ![currentPlayer] = @ + 1]
                   /\ dispScore' = score'
                   /\ procGameOver(Undefined)
                   /\ roundsWon' = roundsWon + 1
                   /\ effects' = <<"mark", "score", "gameOver", "setTimeout">>
              ELSE IF Cardinality({r \in Idx : \E c \in Idx : b[r][c] = Empty}) < 1
                THEN /\ procGameOver("lose")
                     /\ UNCHANGED <<score, dispScore, roundsWon>>
                     /\ effects' = <<"mark", "gameOver", "setTimeout">>
                ELSE /\ UNCHANGED <<score, dispScore, roundsWon, messages, timerQ>>
                     /\ effects' = <<"mark">>
         /\ currentPlayer' = IF currentPlayer = tokens.x THEN tokens.o ELSE tokens.x
    ELSE /\ UNCHANGED <<board, dispCells, marker, score, dispScore, roundsWon,
                        messages, timerQ, currentPlayer>>
         /\ effects' = <<>>

ProcClick(row, col) ==
  /\ variant = "proc"
  /\ procClickListener(row, col)
  /\ last' = [op |-> "click", cell |-> board[row][col]]
  /\ score'[tokens.x] <= MaxScore
  /\ score'[tokens.o] <= MaxScore
  /\ Len(timerQ') <= MaxTimers
  /\ UNCHANGED <<variant, waiting, timers>>

\* clearBoard: a new board and every cell's textContent emptied.
clearBoard ==
  /\ board' = createNewBoard
  /\ dispCells' = [r \in Idx |-> [c \in Idx |-> <<>>]]

\* The oldest pending timeout fires (all are armed with the same delay, so they
\* fire in the order they were armed): either the removal of the oldest
\* message still shown, or clearBoard.
ProcTimerFire ==
  /\ variant = "proc"
  /\ timerQ # <<>>
  /\ timerQ' = Tail(timerQ)
  /\ IF Head(timerQ) = "removeMessage"
       THEN /\ messages' = Tail(messages)
            /\ UNCHANGED <<board, dispCells>>
            /\ effects' = <<"removeMessage">>
       ELSE /\ clearBoard
            /\ UNCHANGED messages
            /\ effects' = <<"clearBoard">>
  /\ last' = [op |-> "timer", cell |-> Empty]
  /\ UNCHANGED <<variant, waiting, timers, currentPlayer, score, dispScore,
                 marker, roundsWon>>

NextProc ==
  \/ \E row \in Idx, col \in Idx : ProcClick(row, col)
  \/ ProcTimerFire

SpecProc == InitProc /\ [][NextProc]_vars

\* The TypeScript engine with the guarantee setTimeout gives: an armed timer
\* fires after its delay, whatever clicks arrive meanwhile.
FairSpecTS == InitTS /\ [][Next]_vars /\ WF_vars(TimerFire)

\* ---------------------------------------------------------------- steps, as seen by the properties
\* The step taken is a click on a cell that held v.
ClickedOn(v) == last'.op = "click" /\ last'.cell = v

\* The step taken is a click on an occupied cell.
ClickedOccupied == last'.op = "click" /\ last'.cell # Empty

\* The step taken is a click on the empty cell (r, c) in the active phase, which
\* the engine accepts and marks.
Accepted(r, c) ==
  ClickedOn(Empty) /\ ~waiting /\ board[r][c] = Empty /\ board'[r][c] # Empty

\* The last handler run performed effect e.
Did(e) == \E i \in 1..Len(effects) : effects[i] = e

\* ---------------------------------------------------------------- properties
\* C1: in the TypeScript engine, after an accepted mark at (row, col) the win
\* check isGameWon(row, col) is true exactly when one of the eight lines of the
\* whole board consists of the current player's mark, and the engine takes the
\* win branch exactly then.
C1_WinCheckMatchesEightLines ==
  [][\A r \in Idx, c \in Idx :
       (variant = "ts" /\ Accepted(r, c)) =>
         /\ isGameWon(board', currentPlayer, r, c) <=> LineComplete(board', currentPlayer)
         /\ (score'[currentPlayer] = score[currentPlayer] + 1)
              <=> LineComplete(board', currentPlayer)]_vars

\* A TypeScript round has just been won through the anti-diagonal alone.
C1_Witness ==
  /\ variant = "ts" /\ last.op = "click" /\ Did("increaseScore")
  /\ ~LineComplete([board EXCEPT ![1][1] = Empty], marker)
  /\ board[2][0] = marker /\ board[1][1] = marker /\ board[0][2] = marker

\* C2: in the TypeScript engine a click on an occupied cell during the active
\* phase changes nothing: board, current player, scores, phase, display and
\* messages are unchanged, no display command is issued, no timer is armed.
C2_OccupiedClickIsNoOpTS ==
  [][(variant = "ts" /\ ClickedOccupied /\ ~waiting) =>
         /\ UNCHANGED <<board, currentPlayer, score, waiting, timers,
                        dispCells, dispScore, messages>>
         /\ effects' = <<>>]_vars

\* The TypeScript engine has just ignored a click on an occupied cell in the active phase.
C2_Witness ==
  /\ variant = "ts" /\ last.op = "click" /\ ~waiting
  /\ last.cell # Empty /\ effects = <<>>

\* C3: in the JavaScript engine a click on an occupied cell during the active
\* phase leaves board, current player, scores and phase unchanged.
C3_OccupiedClickIsNoOpJS ==
  [][(variant = "js" /\ ClickedOccupied /\ ~waiting) =>
         UNCHANGED <<board, currentPlayer, score, waiting>>]_vars

\* C4: a click that arrives while the round is awaiting reset (waiting, timer
\* pending) changes nothing, on an empty or an occupied cell, in both variants.
C4_ClickWhileWaitingIsNoOp ==
  [][(last'.op = "click" /\ waiting /\ timers > 0) =>
         /\ UNCHANGED <<board, currentPlayer, score, waiting, timers,
                        dispCells, dispScore, messages>>
         /\ effects' = <<>>]_vars

\* A click on an empty cell has just been ignored while the reset timer is pending.
C4_Witness ==
  /\ waiting /\ timers = 1 /\ last.op = "click"
  /\ last.cell = Empty /\ effects = <<>>

\* C5: an accepted mark that completes a line for the current player raises
\* that player's score by exactly 1 and leaves the other score alone.
C5_WinScoresExactlyOne ==
  [][\A r \in Idx, c \in Idx :
       (Accepted(r, c) /\ LineComplete(board', currentPlayer)) =>
         \A p \in Tokens :
           score'[p] = IF p = currentPlayer THEN score[p] + 1 ELSE score[p]]_vars

\* Player o has just won a round of a session in which x had won before.
C5_Witness ==
  /\ last.op = "click" /\ Did("increaseScore") /\ marker = players.o
  /\ LineComplete(board, players.o)
  /\ score[players.x] = 1 /\ score[players.o] = 1

\* C6: an accepted mark that fills the last empty cell without completing a
\* line ends the round as a draw: phase awaiting reset, scores unchanged, the
\* message shown names no winner, current player not switched.
C6_FullBoardWithoutLineIsDraw ==
  [][\A r \in Idx, c \in Idx :
       (Accepted(r, c) /\ Full(board') /\ \A p \in Tokens : ~LineComplete(board', p)) =>
         /\ waiting'
         /\ timers' = timers + 1
         /\ score' = score
         /\ messages' = Append(messages, "Nobody wins!")
         /\ currentPlayer' = currentPlayer]_vars

\* A round has just ended in a draw.
C6_Witness ==
  /\ last.op = "click" /\ Did("mark") /\ waiting
  /\ Full(board) /\ \A p \in Tokens : ~LineComplete(board, p)
  /\ messages = <<"Nobody wins!">>

\* C7: an accepted mark that both fills the last empty cell and completes a
\* line for the current player ends the round as a win, never as a draw.
C7_WinBeforeDraw ==
  [][\A r \in Idx, c \in Idx :
       (Accepted(r, c) /\ Full(board') /\ LineComplete(board', currentPlayer)) =>
         /\ score'[currentPlayer] = score[currentPlayer] + 1
         /\ dispScore'[currentPlayer] = score'[currentPlayer]
         /\ waiting'
         /\ messages' = Append(messages,
              IF currentPlayer = "x" THEN "Player 1 wins!" ELSE "Player 2 wins!")]_vars

\* A round has just been won by the mark that filled the board.
C7_Witness ==
  /\ last.op = "click" /\ Did("increaseScore") /\ Full(board)
  /\ LineComplete(board, marker) /\ score[marker] = 1

\* C8: after the deferred reset callback all nine cells are empty in the
\* engine and on the display, no message is displayed, the phase is active,
\* and the next click on any cell is accepted.
C8_ResetGivesFreshActiveRound ==
  [][/\ last'.op = "timer" =>
          /\ board' = [r \in Idx |-> [c \in Idx |-> Empty]]
          /\ \A r \in Idx, c \in Idx : dispCells'[r][c] = <<>>
          /\ messages' = <<>>
          /\ ~waiting'
     /\ (last.op = "timer" /\ last'.op = "click") =>
          \E r \in Idx, c \in Idx :
             /\ board' = [board EXCEPT ![r][c] = currentPlayer]
             /\ dispCells' = [dispCells EXCEPT ![r][c] = <<currentPlayer>>]]_vars

\* The first mark of a new round has just been accepted after a reset.
C8_Witness ==
  /\ last.op = "click" /\ Did("mark") /\ score[players.x] + score[players.o] > 0
  /\ Cardinality({rc \in Idx \X Idx : board[rc[1]][rc[2]] # Empty}) = 1
  /\ messages = <<>> /\ ~waiting

\* C9 as stated: after the deferred reset the current player is the opponent
\* of the player who placed the final mark of the finished round.
C9_TurnPassesAtRoundEnd ==
  last.op = "timer" => currentPlayer # marker

\* C9 amended: after the deferred reset the current player is the player who
\* placed the final mark of the finished round.
C9_FinalMarkerKeepsTurn ==
  last.op = "timer" => (marker \in Tokens /\ currentPlayer = marker)

\* The reset has just fired after a round whose final mark was o's.
C9_Witness ==
  last.op = "timer" /\ marker = players.o /\ ~waiting

\* C10: the deferred reset callback leaves the current player and both scores
\* as they were.
C10_ResetKeepsTurnAndTally ==
  [][last'.op = "timer" => UNCHANGED <<currentPlayer, score>>]_vars

\* The reset has just fired with o to move and a win on the tally.
C10_Witness ==
  /\ last.op = "timer" /\ currentPlayer = players.o
  /\ score[players.o] = 1 /\ effects[1] = "clearMessage"

\* The number of marked cells of b.
Marks(b) == Cardinality({rc \in Idx \X Idx : b[rc[1]][rc[2]] # Empty})

\* C11: an accepted mark that produces neither a win nor a draw switches the
\* current player to the other player and leaves the phase active, both scores
\* unchanged and no timer armed.
C11_ContinueSwitchesPlayer ==
  [][\A r \in Idx, c \in Idx :
       (Accepted(r, c) /\ ~LineComplete(board', currentPlayer) /\ ~Full(board')) =>
         /\ currentPlayer' \in Tokens \ {currentPlayer}
         /\ ~waiting'
         /\ score' = score
         /\ timers' = timers
         /\ messages' = messages]_vars

\* o has just placed a mark that neither wins nor fills the board; x is to move.
C11_Witness ==
  /\ last.op = "click" /\ effects = <<"mark", "updateBoard", "switchPlayer">>
  /\ marker = players.o /\ currentPlayer = players.x /\ ~waiting /\ timers = 0

\* C12: a click whose row or column is outside 0..2 raises no error and is
\* ignored: clickCell returns normally and board, current player, scores and
\* phase are unchanged.
C12_OutOfRangeClickIgnored ==
  [][(last'.op = "click" /\ last'.cell \in {Undefined, NoRow}) =>
        /\ effects' # <<"throw">>
        /\ UNCHANGED <<board, currentPlayer, score, waiting>>]_vars

\* C13: at most one deferred reset timer is pending in every reachable state;
\* a timer is armed exactly on the step that ends a round, only when none is
\* pending, and a pending timer goes away only by firing.
C13_AtMostOneTimer ==
  /\ [](timers \in {0, 1})
  /\ [][/\ (timers' > timers) => (timers = 0 /\ timers' = 1 /\ ~waiting /\ waiting')
        /\ (~waiting /\ waiting') => (timers' = timers + 1)
        /\ (timers' < timers) => last'.op = "timer"]_vars

\* A second round of the session has just ended (in a draw) and armed its timer.
C13_Witness ==
  /\ timers = 1 /\ waiting /\ roundsWon = 1
  /\ last.op = "click" /\ effects = <<"mark", "updateBoard", "waiting", "printMessage", "setTimeout">>

\* C14: whenever the phase is awaiting reset it eventually becomes active again
\* (the armed timer fires), and the only step that leaves awaiting reset is the
\* deferred reset callback: no click ends the waiting phase.
C14_WaitingEndsOnlyByTimer ==
  /\ (waiting ~> ~waiting)
  /\ [][(waiting /\ ~waiting') => last'.op = "timer"]_vars

\* A drawn round has been waited out: the reset has fired and the phase is active.
C14_Witness ==
  /\ last.op = "timer" /\ ~waiting /\ timers = 0
  /\ roundsWon = 0 /\ marker \in Tokens

\* C15: every display.updateBoard(row, col, player) targets a cell that is
\* empty in the engine's board before the write and shows no token; no cell
\* ever shows more than one token.
C15_UpdateBoardOnlyOnEmptyCell ==
  /\ [](\A r \in Idx, c \in Idx : Len(dispCells[r][c]) <= 1)
  /\ [][\A r \in Idx, c \in Idx :
          (last'.op = "click" /\ dispCells'[r][c] # dispCells[r][c]) =>
             /\ board[r][c] = Empty
             /\ dispCells[r][c] = <<>>
             /\ dispCells'[r][c] = <<currentPlayer>>]_vars

\* The second mark of a later round has just been put on the display.
C15_Witness ==
  /\ last.op = "click" /\ Did("updateBoard") /\ roundsWon >= 1
  /\ Marks(board) = 2 /\ ~waiting

\* C16: on every step other than the deferred reset each marked cell keeps
\* its mark; the deferred reset empties all nine cells at once.
C16_MarksStayUntilReset ==
  [][/\ (last'.op # "timer") =>
          \A r \in Idx, c \in Idx : board[r][c] # Empty => board'[r][c] = board[r][c]
     /\ (last'.op = "timer") =>
          \A r \in Idx, c \in Idx : board'[r][c] = Empty]_vars

\* An eighth mark has just been accepted next to seven earlier ones.
C16_Witness ==
  /\ last.op = "click" /\ Did("mark") /\ Marks(board) = 8 /\ ~waiting

\* C17: each score never decreases, changes only on a step in which that
\* player completes a line with an accepted mark, and the two scores add up to
\* the number of rounds that ended in a win.
C17_ScoresCountWonRounds ==
  /\ [](score[players.x] + score[players.o] = roundsWon)
  /\ [][\A p \in Tokens :
          /\ score'[p] >= score[p]
          /\ (score'[p] # score[p]) =>
               /\ currentPlayer = p
               /\ LineComplete(board', p)
               /\ \E r \in Idx, c \in Idx : Accepted(r, c)]_vars

\* Both players have won a round and the tally has survived the reset.
C17_Witness ==
  /\ last.op = "timer" /\ roundsWon = 2
  /\ score[players.x] = 1 /\ score[players.o] = 1 /\ Marks(board) = 0

\* C18: between events each displayed cell shows player p's token exactly when
\* the board holds p there and nothing exactly when the board cell is empty,
\* and each displayed score equals the engine's score.
C18_DisplayMirrorsEngine ==
  /\ \A r \in Idx, c \in Idx :
       dispCells[r][c] = IF board[r][c] = Empty THEN <<>> ELSE <<board[r][c]>>
  /\ \A p \in Tokens : dispScore[p] = score[p]

\* A position with marks of both players, a free cell and a win on the tally.
C18_Witness ==
  /\ score[players.o] = 1 /\ dispScore[players.o] = 1
  /\ dispCells[1][1] = <<"x">> /\ dispCells[0][0] = <<"o">> /\ dispCells[2][2] = <<>>

\* C19: the message shown at round end names the outcome: 'Player 1 wins!'
\* after a win by x, 'Player 2 wins!' after a win by o, 'Nobody wins!' after a draw.
C19_MessageNamesOutcome ==
  waiting =>
    messages = << IF LineComplete(board, marker)
                    THEN (IF marker = "x" THEN "Player 1 wins!" ELSE "Player 2 wins!")
                    ELSE "Nobody wins!" >>

\* o has just won and the message says so.
C19_Witness ==
  waiting /\ marker = "o" /\ LineComplete(board, "o") /\ messages = <<"Player 2 wins!">>

\* The procedural variant has a clearBoard scheduled that has not fired yet.
ClearPending == \E i \in 1..Len(timerQ) : timerQ[i] = "clearBoard"

\* C20: in the procedural variant a click between a round ending and the
\* deferred clearBoard firing changes neither the board nor the score and arms
\* no further timers.
C20_ProcClickBeforeClearIgnored ==
  [][(variant = "proc" /\ last'.op = "click" /\ ClearPending) =>
        /\ board' = board
        /\ score' = score
        /\ timerQ' = timerQ]_vars

\* The number of cells of b that hold p's mark.
MarksOf(b, p) == Cardinality({rc \in Idx \X Idx : b[rc[1]][rc[2]] = p})

\* C21: a winning click does, in this order: mark the cell, push the mark to
\* the display, increment the winner's score, update the displayed score, enter
\* awaiting reset, show the message, arm the timer; no handler run arms the
\* timer before the phase has become awaiting reset.
C21_WinEffectsInOrder ==
  /\ [][\A r \in Idx, c \in Idx :
          (Accepted(r, c) /\ LineComplete(board', currentPlayer)) =>
             effects' = <<"mark", "updateBoard", "increaseScore", "updateScore",
                          "waiting", "printMessage", "setTimeout">>]_vars
  /\ [](\A i \in 1..Len(effects) :
          effects[i] = "setTimeout" => \E j \in 1..(i - 1) : effects[j] = "waiting")

\* x has just won a round: all seven effects of the handler run are on record.
C21_Witness ==
  /\ Len(effects) = 7 /\ effects[3] = "increaseScore" /\ effects[7] = "setTimeout"
  /\ marker = players.x /\ waiting /\ timers = 1 /\ score[players.x] = 1

\* C22: a session starts with an empty board, both scores 0, the phase active
\* and x to move, so the first accepted mark of a session is an x.
C22_SessionStartsWithX ==
  /\ [](marker = Undefined =>
          /\ \A r \in Idx, c \in Idx : board[r][c] = "" /\ dispCells[r][c] = <<>>
          /\ \A p \in Tokens : score[p] = 0 /\ dispScore[p] = 0
          /\ ~waiting /\ timers = 0 /\ messages = <<>>
          /\ currentPlayer = "x")
  /\ [][(marker = Undefined /\ last'.op = "click") =>
          /\ marker' = "x"
          /\ \E r \in Idx, c \in Idx : board' = [board EXCEPT ![r][c] = "x"]]_vars

\* The first mark of a session has been placed in the centre.
C22_Witness ==
  /\ marker = players.x /\ board[1][1] = "x" /\ Marks(board) = 1
  /\ roundsWon = 0 /\ timers = 0 /\ currentPlayer = players.o

\* C23: in the TypeScript engine the phase is awaiting reset exactly when the
\* board holds a completed line or has no empty cell.
C23_WaitingIffRoundOver ==
  waiting <=> ((\E p \in Tokens : LineComplete(board, p)) \/ Full(board))

\* The phase is active with a single empty cell left and no line complete.
C23_Witness ==
  /\ ~waiting /\ Marks(board) = 8 /\ \A p \in Tokens : ~LineComplete(board, p)

\* C24: in the TypeScript engine marks alternate within a round: the numbers of
\* x and o marks differ by at most 1, and an accepted mark on a board that
\* already holds a mark is never by the player who placed the previous one.
C24_MarksAlternate ==
  /\ [](MarksOf(board, "x") - MarksOf(board, "o") \in {-1, 0, 1})
  /\ [][\A r \in Idx, c \in Idx :
          (Accepted(r, c) /\ Marks(board) > 0) =>
             (currentPlayer # marker /\ board'[r][c] = currentPlayer)]_vars

\* A round opened by o stands at three o against two x, and the last click, on
\* an occupied cell, was ignored.
C24_Witness ==
  /\ MarksOf(board, "o") = 3 /\ MarksOf(board, "x") = 2 /\ ~waiting
  /\ last.op = "click" /\ last.cell # Empty

\* C25: between events exactly one message element is displayed while the
\* phase is awaiting reset and none while it is active, so the reset callback's
\* clearMessage always finds a message and never throws.
C25_OneMessageWhileWaiting ==
  /\ Len(messages) = IF waiting THEN 1 ELSE 0
  /\ effects # <<"throw">>

\* The reset callback of the JavaScript engine has just removed the message.
C25_Witness ==
  /\ variant = "js" /\ last.op = "timer" /\ Did("clearMessage")
  /\ messages = <<>> /\ ~waiting

====
